---- MODULE Spec2Model ----
(***************************************************************************)
(* Speedrun splits timer (thnikk/obs-splits): the run state machine of     *)
(* SplitsTimer, the run history of SplitsData, the comparison snapshot     *)
(* taken at start(), and the values the renderer derives from them.        *)
(*                                                                         *)
(* Time is fixed-point: one unit is half a hundredth of a second, so that  *)
(* round(x, 2) has something to round.  Python's None is the empty         *)
(* sequence and a present value v is <<v>>.  A dict is a function on its   *)
(* key set; the history, whose iteration order the code depends on, is a   *)
(* sequence of [key, run] entries in insertion order.                      *)
(***************************************************************************)
EXTENDS Integers, Sequences, FiniteSets, TLC

VARIABLES
    timer,            \* SplitsTimer: the fields set in __init__
    split_names,      \* SplitsData.split_names
    segment_history,  \* SplitsData.segment_history (active category)
    history_file,     \* content of the history file on disk
    now,              \* the clock read by time.time() / datetime.now()
    is_finished,      \* last value returned by SplitsTimer.split()
    op,               \* the operation performed by the last step
    pc,               \* per thread: position inside _on_split / _on_reset
    data,             \* SplitsData: names, full_history and segment_history
    disk,             \* the history file as _load_history finds it
    io,               \* what the last _load_history did: raised, saved, wrote
    served,           \* SplitSocketServer: one entry per connection handled
    srv,              \* SplitSocketServer: its fields, sockets and loop threads
    mon               \* InputMonitor: its flags, the device and the callbacks made

vars == <<timer, split_names, segment_history, history_file, now,
          is_finished, op, pc, data, disk, io, served, srv, mon>>

\* the state of the history tree, of the socket server and of the input
\* monitor, which the timer callbacks leave alone
ext_vars == <<data, disk, io, served, srv, mon>>

----------------------------------------------------------------------------
\* Bounds of the model.

\* the clock runs from 0 to MaxTime units
MaxTime == 3

\* Units per hundredth of a second (the 2 of round(segment_time, 2)).
Cent == 2
\* Units per timestamp second of run_key (scaled down; "%S" resolution).
SecondLen == 2

\* the segment lists a splits file may hold: none, one segment, two
\* segments, and two segments of the same name
NameLists == {<<>>, <<"A">>, <<"A", "B">>, <<"A", "A">>}

None == <<>>
Some(v) == <<v>>
EmptyDict == [n \in {} |-> 0]

----------------------------------------------------------------------------
\* Python built-ins used by the code.

RECURSIVE SumOver(_, _)
SumOver(d, keys) ==
    IF keys = {} THEN 0
    ELSE LET k == CHOOSE x \in keys : TRUE
         IN  d[k] + SumOver(d, keys \ {k})

\* sum(run_data.values())
SumValues(d) == SumOver(d, DOMAIN d)

\* d[k] = v
DictPut(d, k, v) == [x \in (DOMAIN d) \cup {k} |-> IF x = k THEN v ELSE d[x]]

\* min(best_times)
MinOf(S) == CHOOSE m \in S : \A x \in S : m <= x

\* run_key in segment_history
HasKey(h, k) == \E i \in 1..Len(h) : h[i].key = k

\* segment_history[run_key] = run_data: a new key is appended, an existing
\* key keeps its position and gets the new value
HistPut(h, k, r) ==
    IF HasKey(h, k)
    THEN [i \in 1..Len(h) |-> IF h[i].key = k THEN [key |-> k, run |-> r] ELSE h[i]]
    ELSE Append(h, [key |-> k, run |-> r])

\* round(x, 2): to the nearest multiple of Cent, a tie to the even hundredth
round2(x) ==
    LET q == x \div Cent
        r == x % Cent
    IN  IF 2 * r < Cent THEN q * Cent
        ELSE IF 2 * r > Cent THEN (q + 1) * Cent
        ELSE IF q % 2 = 0 THEN q * Cent ELSE (q + 1) * Cent

\* datetime.now().strftime("%Y-%m-%d %H:%M:%S")
run_key(t) == t \div SecondLen

----------------------------------------------------------------------------
\* SplitsTimer

TimerInit ==
    [current_split_index |-> -1,
     start_time |-> 0,
     split_times |-> <<>>,
     timer_running |-> FALSE,
     comparison_pb_segments |-> EmptyDict,
     comparison_best_segments |-> EmptyDict,
     comparison_pb_total |-> None]

\* _get_best_segment() as it would be if it returned the largest recorded time
get_best_segment_max(index, names, h) ==
    IF index < 0 \/ index >= Len(names) THEN None
    ELSE LET name == names[index + 1]
             best_times == {h[i].run[name] : i \in {j \in 1..Len(h) : name \in DOMAIN h[j].run}}
         IN  IF best_times = {} THEN None
             ELSE Some(CHOOSE m \in best_times : \A x \in best_times : m >= x)

\* _get_best_segment(index, split_names, segment_history); index is 0-based
get_best_segment(index, names, h) ==
    IF index < 0 \/ index >= Len(names) THEN None
    ELSE LET name == names[index + 1]
             best_times == {h[i].run[name] : i \in {j \in 1..Len(h) : name \in DOMAIN h[j].run}}
         IN  IF best_times = {} THEN None ELSE Some(MinOf(best_times))

\* the "Find PB run" loop as it would be with "<=": the last of several runs
\* with the smallest total wins
RECURSIVE find_pb_last(_, _, _, _)
find_pb_last(h, i, min_total, pb_run) ==
    IF i > Len(h) THEN [min_total |-> min_total, pb_run |-> pb_run]
    ELSE LET run_total == SumValues(h[i].run)
         IN  IF min_total = None \/ run_total <= min_total[1]
             THEN find_pb_last(h, i + 1, Some(run_total), Some(h[i].run))
             ELSE find_pb_last(h, i + 1, min_total, pb_run)

\* the "Find PB run" loop of start(): scans the runs in order and keeps the
\* first run with the smallest total
RECURSIVE find_pb(_, _, _, _)
find_pb(h, i, min_total, pb_run) ==
    IF i > Len(h) THEN [min_total |-> min_total, pb_run |-> pb_run]
    ELSE LET run_total == SumValues(h[i].run)
         IN  IF min_total = None \/ run_total < min_total[1]
             THEN find_pb(h, i + 1, Some(run_total), Some(h[i].run))
             ELSE find_pb(h, i + 1, min_total, pb_run)

\* the "for i, name in enumerate(split_names)" loop of start()
RECURSIVE fill_comparison(_, _, _, _, _, _)
fill_comparison(i, names, h, pb_run, best, pbs) ==
    IF i >= Len(names) THEN [best |-> best, pbs |-> pbs]
    ELSE LET name == names[i + 1]
             best_seg == get_best_segment(i, names, h)
             best1 == IF best_seg # None THEN DictPut(best, name, best_seg[1]) ELSE best
             pbs1 == IF pb_run # None /\ pb_run[1] # EmptyDict /\ name \in DOMAIN pb_run[1]
                     THEN DictPut(pbs, name, pb_run[1][name]) ELSE pbs
         IN  fill_comparison(i + 1, names, h, pb_run, best1, pbs1)

\* start() as it would be without the two "= {}" statements: the entries of
\* the previous snapshot stay unless overwritten
start_keeps_entries(tm, names, h, t) ==
    LET pb == find_pb(h, 1, None, None)
        cmp == fill_comparison(0, names, h, pb.pb_run,
                               tm.comparison_best_segments, tm.comparison_pb_segments)
    IN  [current_split_index |-> 0,
         start_time |-> t,
         split_times |-> <<>>,
         timer_running |-> TRUE,
         comparison_pb_segments |-> cmp.pbs,
         comparison_best_segments |-> cmp.best,
         comparison_pb_total |-> pb.min_total]

\* SplitsTimer.start(split_names, segment_history) at clock t
start(tm, names, h, t) ==
    LET pb == find_pb(h, 1, None, None)
        cmp == fill_comparison(0, names, h, pb.pb_run, EmptyDict, EmptyDict)
    IN  [current_split_index |-> 0,
         start_time |-> t,
         split_times |-> <<>>,
         timer_running |-> TRUE,
         comparison_pb_segments |-> cmp.pbs,
         comparison_best_segments |-> cmp.best,
         comparison_pb_total |-> pb.min_total]

\* split() as it would be if finishing a run also refreshed the frozen PB total
split_pb_refresh(tm, names, t) ==
    IF ~tm.timer_running THEN [timer |-> tm, finished |-> FALSE]
    ELSE LET elapsed == t - tm.start_time
             tm1 == [tm EXCEPT !.split_times = Append(@, elapsed)]
         IN  IF tm1.current_split_index >= Len(names) - 1
             THEN [timer |-> [tm1 EXCEPT !.timer_running = FALSE,
                                         !.comparison_pb_total = Some(elapsed)],
                   finished |-> TRUE]
             ELSE [timer |-> [tm1 EXCEPT !.current_split_index = @ + 1],
                   finished |-> FALSE]

\* split() as it would be if the final split also cleared current_split_index
split_to_idle(tm, names, t) ==
    IF ~tm.timer_running THEN [timer |-> tm, finished |-> FALSE]
    ELSE LET elapsed == t - tm.start_time
             tm1 == [tm EXCEPT !.split_times = Append(@, elapsed)]
         IN  IF tm1.current_split_index >= Len(names) - 1
             THEN [timer |-> [tm1 EXCEPT !.timer_running = FALSE,
                                         !.current_split_index = -1],
                   finished |-> TRUE]
             ELSE [timer |-> [tm1 EXCEPT !.current_split_index = @ + 1],
                   finished |-> FALSE]

\* split() as it would be without the "if not self.timer_running" guard
split_unguarded(tm, names, t) ==
    LET elapsed == t - tm.start_time
        tm1 == [tm EXCEPT !.split_times = Append(@, elapsed)]
    IN  IF tm1.current_split_index >= Len(names) - 1
        THEN [timer |-> [tm1 EXCEPT !.timer_running = FALSE], finished |-> TRUE]
        ELSE [timer |-> [tm1 EXCEPT !.current_split_index = @ + 1],
              finished |-> FALSE]

\* split() as it would be if it did not record the elapsed time
split_no_append(tm, names, t) ==
    IF ~tm.timer_running THEN [timer |-> tm, finished |-> FALSE]
    ELSE IF tm.current_split_index >= Len(names) - 1
         THEN [timer |-> [tm EXCEPT !.timer_running = FALSE], finished |-> TRUE]
         ELSE [timer |-> [tm EXCEPT !.current_split_index = @ + 1],
               finished |-> FALSE]

\* SplitsTimer.split(split_names) at clock t: the new timer and the result
split(tm, names, t) ==
    IF ~tm.timer_running THEN [timer |-> tm, finished |-> FALSE]
    ELSE LET elapsed == t - tm.start_time
             tm1 == [tm EXCEPT !.split_times = Append(@, elapsed)]
         IN  IF tm1.current_split_index >= Len(names) - 1
             THEN [timer |-> [tm1 EXCEPT !.timer_running = FALSE], finished |-> TRUE]
             ELSE [timer |-> [tm1 EXCEPT !.current_split_index = @ + 1],
                   finished |-> FALSE]

\* reset() as it would be if it forgot to clear split_times
reset_keeps_times(tm) ==
    [tm EXCEPT !.current_split_index = -1,
               !.timer_running = FALSE]

\* SplitsTimer.reset()
reset(tm) ==
    [tm EXCEPT !.current_split_index = -1,
               !.timer_running = FALSE,
               !.split_times = <<>>]

\* get_current_elapsed() as it would be if it kept counting after the run
get_current_elapsed_live(tm, t) ==
    IF tm.timer_running \/ tm.split_times # <<>> THEN t - tm.start_time
    ELSE 0

\* SplitsTimer.get_current_elapsed() at clock t
get_current_elapsed(tm, t) ==
    IF tm.timer_running THEN t - tm.start_time
    ELSE IF tm.split_times # <<>> THEN tm.split_times[Len(tm.split_times)]
    ELSE 0

----------------------------------------------------------------------------
\* SplitsData

\* the loop of save_run: run_data[name] = round(segment_time, 2)
RECURSIVE run_data_loop(_, _, _, _)
run_data_loop(i, names, times, run_data) ==
    IF i >= Len(names) THEN run_data
    ELSE LET prev_total == IF i > 0 THEN times[i] ELSE 0
             segment_time == times[i + 1] - prev_total
         IN  run_data_loop(i + 1, names,
                           times, DictPut(run_data, names[i + 1], round2(segment_time)))

\* save_run() as it would be without the length test
save_run_unchecked(names, h, times, t) ==
    [saved |-> TRUE,
     history |-> HistPut(h, run_key(t), run_data_loop(0, names, times, EmptyDict))]

\* SplitsData.save_run(split_times) at clock t: whether a record is stored,
\* and the segment history afterwards
save_run(names, h, times, t) ==
    IF Len(times) # Len(names) THEN [saved |-> FALSE, history |-> h]
    ELSE [saved |-> TRUE,
          history |-> HistPut(h, run_key(t), run_data_loop(0, names, times, EmptyDict))]

\* SplitsData._save_history(): json.dump to the history file; a failed write
\* is logged and swallowed and leaves the file as it was
save_history(h, file, ok) == IF ok THEN h ELSE file

----------------------------------------------------------------------------
\* SVGRenderer: the comparison values render() derives.  Every value is the
\* number handed to _format_time, or None where nothing is shown.

\* the renderer settings set by script_update()
Settings ==
    [comparison_type : {"pb", "sob"},
     delta_type : {"cumulative", "segment"},
     show_best_segment_time : BOOLEAN,
     show_deltas : BOOLEAN]

\* d.get(k)
dict_get(d, k) == IF k \in DOMAIN d THEN Some(d[k]) ELSE None

\* "timer.timer_running or timer.current_split_index >= 0"
in_run(tm) == tm.timer_running \/ tm.current_split_index >= 0

\* [d.get(split_names[j]) for j in range(i + 1)] without the None entries,
\* summed; None when the list is empty
RECURSIVE sum_present(_, _, _)
sum_present(vals, j, acc) ==
    IF j > Len(vals) THEN acc
    ELSE IF vals[j] = None THEN sum_present(vals, j + 1, acc)
    ELSE sum_present(vals, j + 1, Some((IF acc = None THEN 0 ELSE acc[1]) + vals[j][1]))

cumulative(d, names, i) ==
    sum_present([j \in 1..(i + 1) |-> dict_get(d, names[j])], 1, None)

\* footer, "Calculate PB and SoB": pb_total
render_pb_total(tm, names, h) ==
    IF in_run(tm) THEN tm.comparison_pb_total
    ELSE find_pb(h, 1, None, None).min_total

\* footer, "Calculate PB and SoB": sob_total
render_sob_total(tm, names, h) ==
    IF in_run(tm)
    THEN SumValues(tm.comparison_best_segments)
    ELSE LET s == sum_present([j \in 1..Len(names) |-> get_best_segment(j - 1, names, h)],
                              1, None)
         IN  IF s = None THEN 0 ELSE s[1]

\* comp_cumulative of a row, by comparison_type, from the snapshot
comp_cumulative(st, tm, names, i) ==
    IF st.comparison_type = "sob"
    THEN cumulative(tm.comparison_best_segments, names, i)
    ELSE cumulative(tm.comparison_pb_segments, names, i)

\* a completed row (i < len(split_times)): the value the delta is taken
\* against, None when no delta is shown
completed_delta_ref(st, tm, names, h, i) ==
    LET comp_best == IF in_run(tm)
                     THEN dict_get(tm.comparison_best_segments, names[i + 1])
                     ELSE get_best_segment(i, names, h)
        cc == comp_cumulative(st, tm, names, i)
    IN  IF ~st.show_deltas \/ cc = None THEN None
        ELSE IF st.delta_type = "segment" /\ comp_best # None THEN comp_best
        ELSE cc

\* the active row (i == current_split_index, not yet split): the value the
\* live delta is taken against
live_delta_ref(st, tm, names, h, i) ==
    LET best_seg == get_best_segment(i, names, h)
    IN  IF ~(tm.timer_running /\ st.show_deltas) THEN None
        ELSE IF st.delta_type = "segment" /\ best_seg # None THEN best_seg
        ELSE comp_cumulative(st, tm, names, i)

\* _get_comparison_time(index, data, timer, seg_decimals): the cumulative
\* comparison time of a row, None where "00:00" is shown
get_comparison_time(st, tm, names, h, index) ==
    IF st.comparison_type = "sob"
    THEN sum_present([j \in 1..(index + 1) |-> get_best_segment(j - 1, names, h)], 1, None)
    ELSE IF ~tm.timer_running /\ tm.current_split_index < 0
    THEN LET pb_run == find_pb(h, 1, None, None).pb_run
         IN  IF pb_run # None /\ pb_run[1] # EmptyDict
             THEN cumulative(pb_run[1], names, index)
             ELSE None
    ELSE IF tm.comparison_pb_segments # EmptyDict
    THEN cumulative(tm.comparison_pb_segments, names, index)
    ELSE None

\* one row of render(): the comparison values of segment i
render_row(st, tm, names, h, i) ==
    [delta_ref |->
        IF i < Len(tm.split_times) THEN completed_delta_ref(st, tm, names, h, i)
        ELSE IF i = tm.current_split_index THEN live_delta_ref(st, tm, names, h, i)
        ELSE None,
     comparison_time |->
        IF st.show_best_segment_time THEN get_comparison_time(st, tm, names, h, i)
        ELSE None]

\* render(data, timer): all comparison values of one frame
render(st, tm, names, h) ==
    [pb_total |-> render_pb_total(tm, names, h),
     sob_total |-> render_sob_total(tm, names, h),
     rows |-> [i \in 0..(Len(names) - 1) |-> render_row(st, tm, names, h, i)]]

----------------------------------------------------------------------------
\* SplitsData: the history tree and _load_history().  A key of the tree (a
\* game name, a category name, a run's timestamp) is the sequence of its
\* characters; a JSON value read from the file is tagged with its type.

Digits == {"0", "1", "2", "3", "4", "5", "6", "7", "8", "9"}

\* re.match(r'\d{4}-\d{2}-\d{2}', str(k))
re_match_date(k) ==
    /\ Len(k) >= 10
    /\ \A i \in {1, 2, 3, 4, 6, 7, 9, 10} : k[i] \in Digits
    /\ k[5] = "-" /\ k[8] = "-"

\* the game names of a splits file: "G", and a game called "1942-01-01"
GameNames == {<<"G">>, <<"1", "9", "4", "2", "-", "0", "1", "-", "0", "1">>}

\* the category names of a splits file
CategoryNames == {<<"C">>, <<"D">>}

\* a run_key as strftime("%Y-%m-%d %H:%M:%S") writes it: "2024-01-01 00:00:00"
RunKey0 ==
    <<"2", "0", "2", "4", "-", "0", "1", "-", "0", "1", " ",
      "0", "0", ":", "0", "0", ":", "0", "0">>

\* a JSON object / a JSON value that is not an object (an array)
JsonDict(d) == [t |-> "dict", d |-> d]
JsonList == [t |-> "list"]

\* {game_name: {category_name: flat}}
nested(g, c, flat) == [x \in {g} |-> [y \in {c} |-> flat]]

\* the record of one earlier run
OldRun == [n \in {"A"} |-> 4]

\* the history file as a load can find it: absent, present but not openable,
\* not JSON, a JSON array, an empty object, the legacy flat map, and nested
\* trees with and without the active game and category
DiskContents ==
    {[kind |-> "missing"], [kind |-> "unreadable"], [kind |-> "unparseable"],
     [kind |-> "json", value |-> JsonList],
     [kind |-> "json", value |-> JsonDict(EmptyDict)],
     [kind |-> "json", value |-> JsonDict([k \in {RunKey0} |-> OldRun])],
     [kind |-> "json", value |-> JsonDict(nested(<<"G">>, <<"C">>, [k \in {RunKey0} |-> OldRun]))],
     [kind |-> "json", value |-> JsonDict([x \in {<<"G">>} |-> EmptyDict])]}

\* how a write of the history file ends: written, refused at open(), or
\* failed after open(path, 'w') had truncated the file
WriteOutcomes == {"ok", "denied", "partial"}

\* SplitsData.__init__ (segment_history is a dict of its own)
DataInit ==
    [game_name |-> <<>>,
     category_name |-> <<>>,
     full_history |-> JsonDict(EmptyDict),
     segment_history |-> EmptyDict,
     attached |-> FALSE]

IoInit == [loads |-> 0, raised |-> FALSE, saved |-> None, write |-> "ok"]

\* _save_history() of the tree: open(path, 'w') and json.dump
write_file(tree, file, w) ==
    IF w = "ok" THEN [kind |-> "json", value |-> tree]
    ELSE IF w = "denied" THEN file
    ELSE [kind |-> "unparseable"]

\* _load_history() as it would be if the migration did not save the tree
load_history_nosave(d, file, w) ==
    IF file.kind = "unreadable"
    THEN [data |-> [d EXCEPT !.full_history = JsonDict(EmptyDict), !.attached = FALSE],
          disk |-> file, raised |-> TRUE, saved |-> None]
    ELSE LET read == IF file.kind = "json" THEN file.value ELSE JsonDict(EmptyDict)
         IN  IF read.t # "dict"
             THEN [data |-> [d EXCEPT !.full_history = read, !.attached = FALSE],
                   disk |-> file, raised |-> TRUE, saved |-> None]
             ELSE LET g == d.game_name
                      c == d.category_name
                      is_old_format == \E k \in DOMAIN read.d : re_match_date(k)
                      migrated == IF is_old_format THEN nested(g, c, read.d) ELSE read.d
                      with_g == IF g \notin DOMAIN migrated
                                THEN DictPut(migrated, g, EmptyDict) ELSE migrated
                      with_c == IF c \notin DOMAIN with_g[g]
                                THEN DictPut(with_g, g, DictPut(with_g[g], c, EmptyDict))
                                ELSE with_g
                  IN  [data |-> [d EXCEPT !.full_history = JsonDict(with_c),
                                          !.segment_history = with_c[g][c],
                                          !.attached = TRUE],
                       disk |-> file, raised |-> FALSE, saved |-> None]

\* SplitsData._load_history() with the active names in d, the file as found
\* and the outcome w of a write: the SplitsData afterwards, the file
\* afterwards, whether an exception left the method, and the tree handed to
\* _save_history (None when it was not called)
load_history(d, file, w) ==
    IF file.kind = "unreadable"
    THEN [data |-> [d EXCEPT !.full_history = JsonDict(EmptyDict), !.attached = FALSE],
          disk |-> file, raised |-> TRUE, saved |-> None]
    ELSE LET read == IF file.kind = "json" THEN file.value ELSE JsonDict(EmptyDict)
         IN  IF read.t # "dict"
             THEN [data |-> [d EXCEPT !.full_history = read, !.attached = FALSE],
                   disk |-> file, raised |-> TRUE, saved |-> None]
             ELSE LET g == d.game_name
                      c == d.category_name
                      is_old_format == \E k \in DOMAIN read.d : re_match_date(k)
                      migrated == IF is_old_format THEN nested(g, c, read.d) ELSE read.d
                      with_g == IF g \notin DOMAIN migrated
                                THEN DictPut(migrated, g, EmptyDict) ELSE migrated
                      with_c == IF c \notin DOMAIN with_g[g]
                                THEN DictPut(with_g, g, DictPut(with_g[g], c, EmptyDict))
                                ELSE with_g
                  IN  [data |-> [d EXCEPT !.full_history = JsonDict(with_c),
                                          !.segment_history = with_c[g][c],
                                          !.attached = TRUE],
                       disk |-> IF is_old_format
                                THEN write_file(JsonDict(migrated), file, w) ELSE file,
                       raised |-> FALSE,
                       saved |-> IF is_old_format THEN Some(JsonDict(migrated)) ELSE None]

\* SplitSocketServer.  A socket is the number of the start() that created
\* it, and so is the thread that start() launched.

\* the most sockets start() creates
MaxStarts == 2

Tids == 1..MaxStarts

\* SplitSocketServer.__init__, no socket created, no thread launched:
\*   listening  the sockets that are bound, listening and not closed
\*   bound      the socket the socket path leads to (None: no such path)
\*   joining    stop() is waiting in thread.join
\*   ret, bind  what the last start() returned and how its bind went
\*   loops      per thread: where it is in _server_loop / _handle_client
SrvInit ==
    [running |-> FALSE,
     server_socket |-> None,
     thread |-> None,
     command_handler |-> None,
     listening |-> {},
     bound |-> None,
     joining |-> FALSE,
     starts |-> 0,
     conns |-> 0,
     ret |-> FALSE,
     bind |-> "none",
     loops |-> [t \in Tids |-> [pc |-> "unborn", sock |-> 0, req |-> <<>>]]]

\* InputMonitor.  The button is pressed at most MaxPresses times; the
\* device holds at most MaxQueue unread events.
MaxPresses == 2
MaxQueue == 3
Presses == 1..MaxPresses

\* "self.hold_threshold = 1.0", in clock ticks
hold_threshold == 1 * SecondLen

\* InputMonitor.__init__ with a connected device whose button is up:
\*   is_held, reset_triggered, last_press_time   the fields of the object
\*   queue     the events of the device not read yet, oldest first; value
\*             is 1 (key down), 0 (key up) or 2 (key repeat)
\*   button    whether the button is up or down
\*   presses   the number of key-down events so far
\*   cur       the press whose key-down was read last (0: none)
\*   down_at, up_at   when the button went down and up (-1: not yet)
\*   released  the presses whose key-up has been read
\*   on_split_calls, on_reset_calls   the callbacks made, per press
MonInit ==
    [is_held |-> FALSE,
     reset_triggered |-> FALSE,
     last_press_time |-> 0,
     queue |-> <<>>,
     button |-> "up",
     presses |-> 0,
     cur |-> 0,
     down_at |-> [p \in Presses |-> -1],
     up_at |-> [p \in Presses |-> -1],
     released |-> {},
     on_split_calls |-> [p \in Presses |-> 0],
     on_reset_calls |-> [p \in Presses |-> 0]]

\* nothing of the history tree has been loaded, the socket server not
\* started, no button pressed
ExtInit ==
    /\ data = DataInit
    /\ disk = [kind |-> "missing"]
    /\ io = IoInit
    /\ served = <<>>
    /\ srv = SrvInit
    /\ mon = MonInit

----------------------------------------------------------------------------
\* The callbacks of SplitsPlugin and the settings update, each run to
\* completion before the next one starts (one input thread).

\* the input monitor thread and the command server's handler thread
Threads == {"input", "server"}

\* history files left by earlier sessions: none, or one run of A and B
InitialFiles ==
    {<<>>,
     <<[key |-> -1, run |-> [n \in {"A", "B"} |-> IF n = "A" THEN 4 ELSE 2]]>>}

\* The plugin once the script is loaded: SplitsPlugin() is constructed and
\* the first script_update() has called load_splits(), which found no usable
\* splits file (nothing loaded) or loaded a segment list and the history.
Init ==
    /\ timer = TimerInit
    /\ history_file \in InitialFiles
    /\ \/ split_names = <<>> /\ segment_history = <<>>
       \/ split_names \in NameLists /\ segment_history = history_file
    /\ now = 0
    /\ is_finished = FALSE
    /\ op = "init"
    /\ pc = [th \in Threads |-> "idle"]
    /\ ExtInit

Quiet == \A th \in Threads : pc[th] = "idle"

\* time passes
Tick ==
    /\ now < MaxTime
    /\ now' = now + 1
    /\ op' = "tick"
    /\ UNCHANGED <<timer, split_names, segment_history, history_file,
                   is_finished, pc>>
    /\ UNCHANGED ext_vars

\* "self.timer.start(self.data.split_names, self.data.segment_history)"
call_start(label) ==
    /\ timer' = start(timer, split_names, segment_history, now)
    /\ op' = label
    /\ UNCHANGED <<segment_history, history_file, is_finished>>

\* the split branch as it would be if a failed write also dropped the new
\* record from memory
call_split_rollback(label) ==
    LET r == split(timer, split_names, now)
        s == save_run(split_names, segment_history, r.timer.split_times, now)
    IN  /\ timer' = r.timer
        /\ is_finished' = r.finished
        /\ op' = label
        /\ IF r.finished /\ s.saved
           THEN \E ok \in BOOLEAN :
                   /\ segment_history' = IF ok THEN s.history ELSE segment_history
                   /\ history_file' = save_history(s.history, history_file, ok)
           ELSE UNCHANGED <<segment_history, history_file>>

\* "is_finished = self.timer.split(...); if is_finished: save_run(...)"
call_split(label) ==
    LET r == split(timer, split_names, now)
        s == save_run(split_names, segment_history, r.timer.split_times, now)
    IN  /\ timer' = r.timer
        /\ is_finished' = r.finished
        /\ op' = label
        /\ IF r.finished /\ s.saved
           THEN /\ segment_history' = s.history
                /\ \E ok \in BOOLEAN :
                      history_file' = save_history(s.history, history_file, ok)
           ELSE UNCHANGED <<segment_history, history_file>>

\* _on_split() as it would be if a trigger after a finished run started the
\* next run at once
on_split_restart ==
    /\ Quiet
    /\ IF ~timer.timer_running
       THEN call_start("start")
       ELSE call_split("split")
    /\ UNCHANGED <<split_names, now, pc>>
    /\ UNCHANGED ext_vars

\* SplitsPlugin._on_split(): start when idle, split when running
on_split ==
    /\ Quiet
    /\ IF ~timer.timer_running /\ timer.current_split_index = -1
       THEN call_start("start")
       ELSE IF timer.timer_running
       THEN call_split("split")
       ELSE /\ op' = "ignored"
            /\ UNCHANGED <<timer, segment_history, history_file, is_finished>>
    /\ UNCHANGED <<split_names, now, pc>>
    /\ UNCHANGED ext_vars

\* _on_reset() as it would be if a reset also flushed the history to disk
on_reset_saves ==
    /\ Quiet
    /\ timer' = reset(timer)
    /\ history_file' = segment_history
    /\ op' = "reset"
    /\ UNCHANGED <<split_names, segment_history, now, is_finished, pc>>
    /\ UNCHANGED ext_vars

\* SplitsPlugin._on_reset()
on_reset ==
    /\ Quiet
    /\ timer' = reset(timer)
    /\ op' = "reset"
    /\ UNCHANGED <<split_names, segment_history, history_file, now,
                   is_finished, pc>>
    /\ UNCHANGED ext_vars

\* SplitsData.load_splits() from script_update(): an unreadable or empty
\* splits file changes nothing; otherwise the segment list of the chosen
\* category replaces split_names and the history is read again from disk
load_splits ==
    /\ Quiet
    /\ \E readable \in BOOLEAN, names \in NameLists :
          IF readable
          THEN /\ split_names' = names
               /\ segment_history' = history_file
          ELSE UNCHANGED <<split_names, segment_history>>
    /\ op' = "load"
    /\ UNCHANGED <<timer, history_file, now, is_finished, pc>>
    /\ UNCHANGED ext_vars

Next == Tick \/ on_split \/ on_reset \/ load_splits

Spec == Init /\ [][Next]_vars

----------------------------------------------------------------------------
\* The command vocabulary routed straight into the timer: "start" calls
\* start(), "split" calls split() and saves a finished run, "reset" calls
\* reset().

cmd_start ==
    /\ Quiet
    /\ call_start("cmd_start")
    /\ UNCHANGED <<split_names, now, pc>>
    /\ UNCHANGED ext_vars

cmd_split ==
    /\ Quiet
    /\ call_split("cmd_split")
    /\ UNCHANGED <<split_names, now, pc>>
    /\ UNCHANGED ext_vars

cmd_reset ==
    /\ Quiet
    /\ timer' = reset(timer)
    /\ op' = "cmd_reset"
    /\ UNCHANGED <<split_names, segment_history, history_file, now,
                   is_finished, pc>>
    /\ UNCHANGED ext_vars

NextCmd == Next \/ cmd_start \/ cmd_split \/ cmd_reset

SpecCmd == Init /\ [][NextCmd]_vars

----------------------------------------------------------------------------
\* _on_split() and _on_reset() statement by statement, called from the
\* input thread and from the command handler's thread with nothing that
\* keeps the two apart.  pc[th] names the statement thread th runs next.

Goto(th, label) == pc' = [pc EXCEPT ![th] = label]

\* _on_split(): the if / elif that picks start() or split()
c_on_split(th) ==
    /\ pc[th] = "idle"
    /\ IF ~timer.timer_running /\ timer.current_split_index = -1
       THEN Goto(th, "st_snapshot")
       ELSE IF timer.timer_running
       THEN Goto(th, "sp_guard")
       ELSE UNCHANGED pc
    /\ op' = "c_on_split"
    /\ UNCHANGED <<timer, split_names, segment_history, history_file, now,
                   is_finished>>
    /\ UNCHANGED ext_vars

\* start(): the comparison snapshot
c_st_snapshot(th) ==
    /\ pc[th] = "st_snapshot"
    /\ LET fresh == start(timer, split_names, segment_history, now)
       IN  timer' = [timer EXCEPT
                       !.comparison_pb_segments = fresh.comparison_pb_segments,
                       !.comparison_best_segments = fresh.comparison_best_segments,
                       !.comparison_pb_total = fresh.comparison_pb_total]
    /\ Goto(th, "st_time")
    /\ op' = "c_st_snapshot"
    /\ UNCHANGED <<split_names, segment_history, history_file, now, is_finished>>
    /\ UNCHANGED ext_vars

\* start(): self.start_time = time.time()
c_st_time(th) ==
    /\ pc[th] = "st_time"
    /\ timer' = [timer EXCEPT !.start_time = now]
    /\ Goto(th, "st_run")
    /\ op' = "c_st_time"
    /\ UNCHANGED <<split_names, segment_history, history_file, now, is_finished>>
    /\ UNCHANGED ext_vars

\* start(): self.timer_running = True
c_st_run(th) ==
    /\ pc[th] = "st_run"
    /\ timer' = [timer EXCEPT !.timer_running = TRUE]
    /\ Goto(th, "st_idx")
    /\ op' = "c_st_run"
    /\ UNCHANGED <<split_names, segment_history, history_file, now, is_finished>>
    /\ UNCHANGED ext_vars

\* start(): self.current_split_index = 0
c_st_idx(th) ==
    /\ pc[th] = "st_idx"
    /\ timer' = [timer EXCEPT !.current_split_index = 0]
    /\ Goto(th, "st_times")
    /\ op' = "c_st_idx"
    /\ UNCHANGED <<split_names, segment_history, history_file, now, is_finished>>
    /\ UNCHANGED ext_vars

\* start(): self.split_times = []
c_st_times(th) ==
    /\ pc[th] = "st_times"
    /\ timer' = [timer EXCEPT !.split_times = <<>>]
    /\ Goto(th, "idle")
    /\ op' = "c_st_times"
    /\ UNCHANGED <<split_names, segment_history, history_file, now, is_finished>>
    /\ UNCHANGED ext_vars

\* split(): if not self.timer_running: return False
c_sp_guard(th) ==
    /\ pc[th] = "sp_guard"
    /\ IF ~timer.timer_running
       THEN Goto(th, "idle") /\ is_finished' = FALSE
       ELSE Goto(th, "sp_append") /\ UNCHANGED is_finished
    /\ op' = "c_sp_guard"
    /\ UNCHANGED <<timer, split_names, segment_history, history_file, now>>
    /\ UNCHANGED ext_vars

\* split(): self.split_times.append(time.time() - self.start_time)
c_sp_append(th) ==
    /\ pc[th] = "sp_append"
    /\ timer' = [timer EXCEPT !.split_times = Append(@, now - timer.start_time)]
    /\ Goto(th, "sp_last")
    /\ op' = "c_sp_append"
    /\ UNCHANGED <<split_names, segment_history, history_file, now, is_finished>>
    /\ UNCHANGED ext_vars

\* split(): the last-segment test, and what each branch assigns
c_sp_last(th) ==
    /\ pc[th] = "sp_last"
    /\ IF timer.current_split_index >= Len(split_names) - 1
       THEN /\ timer' = [timer EXCEPT !.timer_running = FALSE]
            /\ is_finished' = TRUE
            /\ Goto(th, "sv_run")
       ELSE /\ timer' = [timer EXCEPT !.current_split_index = @ + 1]
            /\ is_finished' = FALSE
            /\ Goto(th, "idle")
    /\ op' = "c_sp_last"
    /\ UNCHANGED <<split_names, segment_history, history_file, now>>
    /\ UNCHANGED ext_vars

\* _on_split(): self.data.save_run(self.timer.split_times)
c_sv_run(th) ==
    /\ pc[th] = "sv_run"
    /\ LET s == save_run(split_names, segment_history, timer.split_times, now)
       IN  IF s.saved
           THEN /\ segment_history' = s.history
                /\ \E ok \in BOOLEAN :
                      history_file' = save_history(s.history, history_file, ok)
           ELSE UNCHANGED <<segment_history, history_file>>
    /\ Goto(th, "idle")
    /\ op' = "c_sv_run"
    /\ UNCHANGED <<timer, split_names, now, is_finished>>
    /\ UNCHANGED ext_vars

\* _on_reset() -> reset(): self.current_split_index = -1
c_on_reset(th) ==
    /\ pc[th] = "idle"
    /\ timer' = [timer EXCEPT !.current_split_index = -1]
    /\ Goto(th, "rs_run")
    /\ op' = "c_on_reset"
    /\ UNCHANGED <<split_names, segment_history, history_file, now, is_finished>>
    /\ UNCHANGED ext_vars

\* reset(): self.timer_running = False
c_rs_run(th) ==
    /\ pc[th] = "rs_run"
    /\ timer' = [timer EXCEPT !.timer_running = FALSE]
    /\ Goto(th, "rs_times")
    /\ op' = "c_rs_run"
    /\ UNCHANGED <<split_names, segment_history, history_file, now, is_finished>>
    /\ UNCHANGED ext_vars

\* reset(): self.split_times = []
c_rs_times(th) ==
    /\ pc[th] = "rs_times"
    /\ timer' = [timer EXCEPT !.split_times = <<>>]
    /\ Goto(th, "idle")
    /\ op' = "c_rs_times"
    /\ UNCHANGED <<split_names, segment_history, history_file, now, is_finished>>
    /\ UNCHANGED ext_vars

ThreadStep(th) ==
    \/ c_on_split(th)
    \/ c_st_snapshot(th)
    \/ c_st_time(th)
    \/ c_st_run(th)
    \/ c_st_idx(th)
    \/ c_st_times(th)
    \/ c_sp_guard(th)
    \/ c_sp_append(th)
    \/ c_sp_last(th)
    \/ c_sv_run(th)
    \/ c_on_reset(th)
    \/ c_rs_run(th)
    \/ c_rs_times(th)

\* the two threads race within one clock unit and one set of settings
NextConc == \E th \in Threads : ThreadStep(th)

SpecConc == Init /\ [][NextConc]_vars

----------------------------------------------------------------------------
\* start() over histories of every shape: the plugin is loaded with a
\* history written by earlier sessions, and only the split and reset
\* triggers follow (no clock tick, no reload).

\* the most runs an earlier session has left in the history
MaxRuns == 2

\* the durations recorded in earlier runs
SegValues == {0, 2, 4}

\* the records of earlier runs: a duration for some of the segments A and B
RunSet == UNION {[ks -> SegValues] : ks \in SUBSET {"A", "B"}}

\* the histories of earlier sessions, oldest run first; run i has key -i
Histories ==
    UNION {{[i \in 1..n |-> [key |-> -i, run |-> f[i]]] : f \in [1..n -> RunSet]}
           : n \in 0..MaxRuns}

InitFn ==
    /\ timer = TimerInit
    /\ segment_history \in Histories
    /\ history_file = segment_history
    /\ split_names \in NameLists
    /\ now = 0
    /\ is_finished = FALSE
    /\ op = "init"
    /\ pc = [th \in Threads |-> "idle"]
    /\ ExtInit

NextFn == on_split \/ on_reset

SpecFn == InitFn /\ [][NextFn]_vars

----------------------------------------------------------------------------
\* load_splits() at the level of the history tree: the game and category
\* are settled from the splits file, then _load_history() reads the file.

\* the most loads of one session
MaxLoads == 3

InitLoad ==
    /\ timer = TimerInit
    /\ split_names = <<>>
    /\ segment_history = <<>>
    /\ history_file = <<>>
    /\ now = 0
    /\ is_finished = FALSE
    /\ op = "init"
    /\ pc = [th \in Threads |-> "idle"]
    /\ data = DataInit
    /\ disk \in DiskContents
    /\ io = IoInit
    /\ served = <<>>
    /\ srv = SrvInit
    /\ mon = MonInit

\* load_splits(): lines 136-154 settle game_name and category_name, line
\* 158 calls _load_history(); an exception is caught at line 160
do_load_history ==
    /\ io.loads < MaxLoads
    /\ \E g \in GameNames, c \in CategoryNames, w \in WriteOutcomes :
          LET r == load_history([data EXCEPT !.game_name = g, !.category_name = c],
                                disk, w)
          IN  /\ data' = r.data
              /\ disk' = r.disk
              /\ io' = [loads |-> io.loads + 1, raised |-> r.raised,
                        saved |-> r.saved, write |-> w]
    /\ op' = "load_history"
    /\ UNCHANGED <<timer, split_names, segment_history, history_file, now,
                   is_finished, pc, served, srv, mon>>

NextLoad == do_load_history

SpecLoad == InitLoad /\ [][NextLoad]_vars

----------------------------------------------------------------------------
\* Loads and finished runs at the level of the history tree: save_run()
\* puts the record into segment_history and _save_history() dumps
\* full_history.  The two are one object only when the last load got as far
\* as line 195.

\* the key and the record of a run finished in this session
RunKey1 ==
    <<"2", "0", "2", "4", "-", "0", "1", "-", "0", "1", " ",
      "0", "0", ":", "0", "0", ":", "0", "1">>
NewRun == [n \in {"A"} |-> 2]

\* SplitsData.save_run() of a finished run, lines 214-223: the record goes
\* into segment_history, then _save_history() dumps full_history
tree_save_run(d, file, key, run_data, w) ==
    LET seg == DictPut(d.segment_history, key, run_data)
        tree == IF d.attached
                THEN JsonDict([d.full_history.d EXCEPT
                                 ![d.game_name] = [@ EXCEPT ![d.category_name] = seg]])
                ELSE d.full_history
    IN  [data |-> [d EXCEPT !.segment_history = seg, !.full_history = tree],
         disk |-> write_file(tree, file, w),
         saved |-> Some(tree)]

\* a run finishes and _on_split() calls save_run(); split_names is not
\* empty, so load_splits() has got as far as _load_history() before
do_save_run ==
    /\ io.loads > 0
    /\ \E w \in WriteOutcomes :
          LET r == tree_save_run(data, disk, RunKey1, NewRun, w)
          IN  /\ data' = r.data
              /\ disk' = r.disk
              /\ io' = [io EXCEPT !.raised = FALSE, !.saved = r.saved, !.write = w]
    /\ op' = "save_run"
    /\ UNCHANGED <<timer, split_names, segment_history, history_file, now,
                   is_finished, pc, served, srv, mon>>

NextTree == do_load_history \/ do_save_run

SpecTree == InitLoad /\ [][NextTree]_vars

----------------------------------------------------------------------------
\* SplitSocketServer._handle_client(): one connection, from recv to close.
\* The bytes received are a text and whether they are valid UTF-8; a JSON
\* value is tagged with its type, an object being the sequence of its
\* <<key, value>> items.

\* the most connections the server handles
MaxConns == 2

JsonObject(items) == [t |-> "dict", items |-> items]

\* what a client sends: nothing, bytes that are not UTF-8, text that is not
\* JSON, JSON that is no command, and commands
EmptyData == [utf8 |-> TRUE, text |-> ""]
Requests ==
    {EmptyData,
     [utf8 |-> FALSE, text |-> "\\xff\\xfe"],
     [utf8 |-> TRUE, text |-> "{not json"],
     [utf8 |-> TRUE, text |-> "{\"foo\": 1}"],
     [utf8 |-> TRUE, text |-> "[1]"],
     [utf8 |-> TRUE, text |-> "{\"command\": \"split\"}"],
     [utf8 |-> TRUE, text |-> "{\"command\": \"reset\", \"by\": \"x\"}"]}

\* json.loads(text) on the texts clients send: whether it parses, and the
\* value
json_loads(text) ==
    CASE text = "{\"foo\": 1}" ->
            [ok |-> TRUE, value |-> JsonObject(<<<<"foo", 1>>>>)]
      [] text = "[1]" ->
            [ok |-> TRUE, value |-> [t |-> "list", items |-> <<1>>]]
      [] text = "{\"command\": \"split\"}" ->
            [ok |-> TRUE, value |-> JsonObject(<<<<"command", "split">>>>)]
      [] text = "{\"command\": \"reset\", \"by\": \"x\"}" ->
            [ok |-> TRUE,
             value |-> JsonObject(<<<<"command", "reset">>, <<"by", "x">>>>)]
      [] OTHER -> [ok |-> FALSE, value |-> [t |-> "none"]]

\* isinstance(command, dict) and 'command' in command
is_command(v) ==
    v.t = "dict" /\ \E i \in 1..Len(v.items) : v.items[i][1] = "command"

\* json.dumps of a string
dumps_str(x) == "\"" \o x \o "\""

\* json.dumps of the items of an object with string values, from item i on
RECURSIVE dumps_items(_, _)
dumps_items(items, i) ==
    IF i > Len(items) THEN ""
    ELSE (IF i > 1 THEN ", " ELSE "")
           \o dumps_str(items[i][1]) \o ": " \o dumps_str(items[i][2])
           \o dumps_items(items, i + 1)

\* json.dumps(response): the text, or a TypeError for a value JSON has no
\* encoding for
json_dumps(v) ==
    CASE v.t = "dict" -> [ok |-> TRUE, text |-> "{" \o dumps_items(v.items, 1) \o "}"]
      [] v.t = "none" -> [ok |-> TRUE, text |-> "null"]
      [] OTHER -> [ok |-> FALSE, text |-> ""]

ErrInvalidCommand ==
    JsonObject(<<<<"response", "error">>, <<"error", "invalid_command">>>>)
ErrInvalidJson ==
    JsonObject(<<<<"response", "error">>, <<"error", "invalid_json">>>>)

\* what the injected command_handler does with a command: returns a
\* response object, returns None, returns a value json.dumps rejects (a
\* set), or raises
HandlerOutcomes ==
    {[kind |-> "return", value |-> JsonObject(<<<<"response", "ok">>>>)],
     [kind |-> "return",
      value |-> JsonObject(<<<<"response", "error">>, <<"error", "unknown">>>>)],
     [kind |-> "return", value |-> [t |-> "none"]],
     [kind |-> "return", value |-> [t |-> "set"]],
     [kind |-> "raise", value |-> [t |-> "none"]]}

\* lines 103-105: encode the response and send it; then the finally clause
send_response(req, calls, response, send_ok) ==
    LET enc == json_dumps(response)
        before == <<"recv">> \o (IF calls = <<>> THEN <<>> ELSE <<"handler">>)
    IN  [data |-> req, calls |-> calls, response |-> Some(response),
         sent |-> IF enc.ok /\ send_ok THEN <<enc.text>> ELSE <<>>,
         events |-> before \o (IF enc.ok /\ send_ok THEN <<"send">> ELSE <<"error">>)
                           \o <<"close">>]

\* _handle_client() as it would be if it answered every command itself
handle_client_fixed(req, outcome, send_ok) ==
    IF req = EmptyData
    THEN [data |-> req, calls |-> <<>>, response |-> None, sent |-> <<>>,
          events |-> <<"recv", "close">>]
    ELSE IF ~req.utf8
    THEN [data |-> req, calls |-> <<>>, response |-> None, sent |-> <<>>,
          events |-> <<"recv", "error", "close">>]
    ELSE LET parsed == json_loads(req.text)
         IN  IF ~parsed.ok THEN send_response(req, <<>>, ErrInvalidJson, send_ok)
             ELSE IF ~is_command(parsed.value)
             THEN send_response(req, <<>>, ErrInvalidCommand, send_ok)
             ELSE IF outcome.kind = "raise"
             THEN [data |-> req, calls |-> <<parsed.value>>, response |-> None,
                   sent |-> <<>>, events |-> <<"recv", "handler", "error", "close">>]
             ELSE send_response(req, <<parsed.value>>,
                                JsonObject(<<<<"response", "ok">>>>), send_ok)

\* _handle_client(client_socket) for the bytes req, the handler behaving as
\* outcome and send() succeeding or not: the bytes read, the arguments of
\* the handler calls, the response built (None if none), the texts sent and
\* the order of events on the connection
handle_client(req, outcome, send_ok) ==
    IF req = EmptyData
    THEN [data |-> req, calls |-> <<>>, response |-> None, sent |-> <<>>,
          events |-> <<"recv", "close">>]
    ELSE IF ~req.utf8
    THEN [data |-> req, calls |-> <<>>, response |-> None, sent |-> <<>>,
          events |-> <<"recv", "error", "close">>]
    ELSE LET parsed == json_loads(req.text)
         IN  IF ~parsed.ok THEN send_response(req, <<>>, ErrInvalidJson, send_ok)
             ELSE IF ~is_command(parsed.value)
             THEN send_response(req, <<>>, ErrInvalidCommand, send_ok)
             ELSE IF outcome.kind = "raise"
             THEN [data |-> req, calls |-> <<parsed.value>>, response |-> None,
                   sent |-> <<>>, events |-> <<"recv", "handler", "error", "close">>]
             ELSE send_response(req, <<parsed.value>>, outcome.value, send_ok)

InitServer ==
    /\ timer = TimerInit
    /\ split_names = <<>>
    /\ segment_history = <<>>
    /\ history_file = <<>>
    /\ now = 0
    /\ is_finished = FALSE
    /\ op = "init"
    /\ pc = [th \in Threads |-> "idle"]
    /\ ExtInit

\* _server_loop(): accept() returns a client and _handle_client serves it;
\* served keeps what happened on the connection, with what the handler and
\* send() were going to do
serve_client ==
    /\ Len(served) < MaxConns
    /\ \E req \in Requests, outcome \in HandlerOutcomes, send_ok \in BOOLEAN :
          served' = Append(served, [outcome |-> outcome, send_ok |-> send_ok,
                                    conn |-> handle_client(req, outcome, send_ok)])
    /\ op' = "handle_client"
    /\ UNCHANGED <<timer, split_names, segment_history, history_file, now,
                   is_finished, pc, data, disk, io, srv, mon>>

NextServer == serve_client

SpecServer == InitServer /\ [][NextServer]_vars

----------------------------------------------------------------------------
\* SplitSocketServer: start() and stop() called from the application's
\* thread while the threads start() launched run _server_loop().

\* the command handlers an application passes to start()
Handlers == {"h1", "h2"}

\* what the clients of this part send, and what the handler does
LifeRequests ==
    {EmptyData,
     [utf8 |-> TRUE, text |-> "{not json"],
     [utf8 |-> TRUE, text |-> "{\"command\": \"split\"}"]}
LifeOutcomes ==
    {[kind |-> "return", value |-> JsonObject(<<<<"response", "ok">>>>)],
     [kind |-> "return", value |-> [t |-> "set"]],
     [kind |-> "raise", value |-> [t |-> "none"]]}

\* the handler was not called on this connection
NotCalled == [kind |-> "none", value |-> [t |-> "none"]]

\* start() as it would be if it set the running flag before binding
server_start_flag_first(s, handler, bind_ok) ==
    IF s.running THEN [s EXCEPT !.ret = TRUE, !.bind = "none"]
    ELSE LET id == s.starts + 1
         IN  IF bind_ok
             THEN [s EXCEPT !.command_handler = Some(handler),
                            !.bound = Some(id),
                            !.server_socket = Some(id),
                            !.listening = @ \cup {id},
                            !.running = TRUE,
                            !.thread = Some(id),
                            !.loops[id].pc = "loop",
                            !.starts = id, !.ret = TRUE, !.bind = "ok"]
             ELSE [s EXCEPT !.command_handler = Some(handler),
                            !.bound = None,
                            !.server_socket = Some(id),
                            !.running = TRUE,
                            !.starts = id, !.ret = FALSE, !.bind = "failed"]

\* start() as it would be without "if self.running: return True"
server_start_again(s, handler, bind_ok) ==
    LET id == s.starts + 1
    IN  IF id > MaxStarts THEN [s EXCEPT !.ret = TRUE, !.bind = "none"]
        ELSE IF bind_ok
        THEN [s EXCEPT !.command_handler = Some(handler),
                       !.bound = Some(id),
                       !.server_socket = Some(id),
                       !.listening = @ \cup {id},
                       !.running = TRUE,
                       !.thread = Some(id),
                       !.loops[id].pc = "loop",
                       !.starts = id, !.ret = TRUE, !.bind = "ok"]
        ELSE [s EXCEPT !.command_handler = Some(handler),
                       !.bound = None,
                       !.server_socket = Some(id),
                       !.starts = id, !.ret = FALSE, !.bind = "failed"]

\* SplitSocketServer.start(command_handler), the bind succeeding or raising
\* OSError: a stale socket path is unlinked, a socket created, bound and
\* made to listen, the flag set and the loop thread launched
server_start(s, handler, bind_ok) ==
    IF s.running THEN [s EXCEPT !.ret = TRUE, !.bind = "none"]
    ELSE LET id == s.starts + 1
         IN  IF bind_ok
             THEN [s EXCEPT !.command_handler = Some(handler),
                            !.bound = Some(id),
                            !.server_socket = Some(id),
                            !.listening = @ \cup {id},
                            !.running = TRUE,
                            !.thread = Some(id),
                            !.loops[id].pc = "loop",
                            !.starts = id, !.ret = TRUE, !.bind = "ok"]
             ELSE [s EXCEPT !.command_handler = Some(handler),
                            !.bound = None,
                            !.server_socket = Some(id),
                            !.starts = id, !.ret = FALSE, !.bind = "failed"]

\* SplitSocketServer.stop() up to thread.join: the flag is cleared, the
\* socket closed and forgotten, the path unlinked; the join is entered when
\* there is a thread and it is alive
server_stop(s) ==
    [s EXCEPT !.running = FALSE,
              !.listening = IF s.server_socket = None THEN @
                            ELSE @ \ {s.server_socket[1]},
              !.server_socket = None,
              !.bound = None,
              !.joining = /\ s.thread # None
                          /\ s.loops[s.thread[1]].pc \notin {"unborn", "done"}]

\* _server_loop() after _handle_client() as it would be if an error on the
\* connection ended the loop
loop_after_client_break(conn) ==
    IF "error" \in {conn.events[i] : i \in 1..Len(conn.events)} THEN "done"
    ELSE "loop"

\* _server_loop() after _handle_client() returned: _handle_client lets no
\* Exception out, so the loop goes back to its while test
loop_after_client(conn) == "loop"

\* whether _handle_client calls the handler for these bytes
calls_handler(req) == handle_client(req, NotCalled, TRUE).calls # <<>>

InitLife ==
    /\ timer = TimerInit
    /\ split_names = <<>>
    /\ segment_history = <<>>
    /\ history_file = <<>>
    /\ now = 0
    /\ is_finished = FALSE
    /\ op = "init"
    /\ pc = [th \in Threads |-> "idle"]
    /\ ExtInit

\* what the steps of the server leave alone
life_unchanged ==
    UNCHANGED <<timer, split_names, segment_history, history_file, now,
                is_finished, pc, data, disk, io, mon>>

\* the application calls start(handler)
srv_start ==
    /\ ~srv.joining
    /\ srv.running \/ srv.starts < MaxStarts
    /\ \E handler \in Handlers, bind_ok \in BOOLEAN :
          srv' = server_start(srv, handler, bind_ok)
    /\ op' = "srv_start"
    /\ UNCHANGED served
    /\ life_unchanged

\* the application calls stop()
srv_stop ==
    /\ ~srv.joining
    /\ srv' = server_stop(srv)
    /\ op' = "srv_stop"
    /\ UNCHANGED served
    /\ life_unchanged

\* thread.join(timeout=2.0) returns: the thread has ended, or it is still
\* waiting for a client's bytes or for the handler after 2 seconds (a
\* thread at the while test or in accept() moves on within the 1 second
\* accept timeout)
srv_join ==
    /\ srv.joining
    /\ srv.loops[srv.thread[1]].pc \in {"done", "recv", "handler"}
    /\ srv' = [srv EXCEPT !.joining = FALSE]
    /\ op' = "srv_join"
    /\ UNCHANGED served
    /\ life_unchanged

\* _server_loop(): while self.running
t_check(t) ==
    /\ srv.loops[t].pc = "loop"
    /\ srv' = [srv EXCEPT !.loops[t].pc = IF srv.running THEN "enter" ELSE "done"]
    /\ op' = "t_check"
    /\ UNCHANGED served
    /\ life_unchanged

\* _server_loop(): self.server_socket.accept() is entered; with
\* server_socket None the AttributeError ends the thread
t_enter(t) ==
    /\ srv.loops[t].pc = "enter"
    /\ srv' = IF srv.server_socket = None
              THEN [srv EXCEPT !.loops[t].pc = "done"]
              ELSE [srv EXCEPT !.loops[t].pc = "accept",
                               !.loops[t].sock = srv.server_socket[1]]
    /\ op' = "t_enter"
    /\ UNCHANGED served
    /\ life_unchanged

\* accept() returns: OSError on a socket that is closed or not listening
\* (break); otherwise a client, socket.timeout after 1 second (continue),
\* or an OSError of the system (break)
t_accept(t) ==
    /\ srv.loops[t].pc = "accept"
    /\ IF srv.loops[t].sock \notin srv.listening
       THEN srv' = [srv EXCEPT !.loops[t].pc = "done"]
       ELSE \/ srv' = [srv EXCEPT !.loops[t].pc = "loop"]
            \/ srv' = [srv EXCEPT !.loops[t].pc = "done"]
            \/ /\ srv.conns < MaxConns
               /\ srv' = [srv EXCEPT !.loops[t].pc = "recv", !.conns = @ + 1]
    /\ op' = "t_accept"
    /\ UNCHANGED served
    /\ life_unchanged

\* _handle_client(): recv(1024) returns what the client sent (b'' when it
\* closed); bytes that are no command are answered and the socket closed
t_recv(t) ==
    /\ srv.loops[t].pc = "recv"
    /\ \E req \in LifeRequests, send_ok \in BOOLEAN :
          IF calls_handler(req)
          THEN /\ send_ok
               /\ srv' = [srv EXCEPT !.loops[t].pc = "handler", !.loops[t].req = req]
               /\ UNCHANGED served
          ELSE LET conn == handle_client(req, NotCalled, send_ok)
               IN  /\ served' = Append(served, [outcome |-> NotCalled,
                                                send_ok |-> send_ok, conn |-> conn])
                   /\ srv' = [srv EXCEPT !.loops[t].pc = loop_after_client(conn)]
    /\ op' = "t_recv"
    /\ life_unchanged

\* _handle_client(): the handler returns or raises, the response is encoded
\* and sent, the socket closed
t_handler(t) ==
    /\ srv.loops[t].pc = "handler"
    /\ \E outcome \in LifeOutcomes, send_ok \in BOOLEAN :
          LET conn == handle_client(srv.loops[t].req, outcome, send_ok)
          IN  /\ served' = Append(served, [outcome |-> outcome,
                                           send_ok |-> send_ok, conn |-> conn])
              /\ srv' = [srv EXCEPT !.loops[t].pc = loop_after_client(conn),
                                    !.loops[t].req = <<>>]
    /\ op' = "t_handler"
    /\ life_unchanged

LoopStep(t) == t_check(t) \/ t_enter(t) \/ t_accept(t) \/ t_handler(t)

NextLife ==
    \/ srv_start
    \/ srv_stop
    \/ srv_join
    \/ \E t \in Tids : LoopStep(t) \/ t_recv(t)

SpecLife == InitLife /\ [][NextLife]_vars

\* the loop threads keep running, accept() returns within its timeout, the
\* handler returns and join returns; nothing makes a client send
SpecLifeFair ==
    /\ InitLife /\ [][NextLife]_vars
    /\ \A t \in Tids : WF_vars(LoopStep(t))
    /\ WF_vars(srv_join)

----------------------------------------------------------------------------
\* InputMonitor: the user presses and releases the configured button, the
\* device queues the events, and the monitor thread calls _process_input()
\* whenever it gets to it.  The callbacks are those given to __init__; the
\* calls are counted per press.

\* the last clock value of this part
MaxClock == 5

\* the key-up branch as it would be without "if not self.reset_triggered"
key_event_always_splits(m, e, t) ==
    IF e.value = 1
    THEN [m EXCEPT !.last_press_time = t, !.is_held = TRUE,
                   !.reset_triggered = FALSE, !.cur = e.press]
    ELSE IF e.value = 0
    THEN [m EXCEPT !.is_held = FALSE,
                   !.on_split_calls[e.press] = @ + 1,
                   !.reset_triggered = FALSE,
                   !.released = @ \cup {e.press}]
    ELSE m

\* lines 382-392 for one event of the configured button, read at clock t
key_event(m, e, t) ==
    IF e.value = 1
    THEN [m EXCEPT !.last_press_time = t, !.is_held = TRUE,
                   !.reset_triggered = FALSE, !.cur = e.press]
    ELSE IF e.value = 0
    THEN [m EXCEPT !.is_held = FALSE,
                   !.on_split_calls[e.press] =
                       IF ~m.reset_triggered THEN @ + 1 ELSE @,
                   !.reset_triggered = FALSE,
                   !.released = @ \cup {e.press}]
    ELSE m

\* "for event in self.gamepad.read()": the queued events in order
RECURSIVE read_events(_, _, _, _)
read_events(m, q, i, t) ==
    IF i > Len(q) THEN m
    ELSE read_events(key_event(m, q[i], t), q, i + 1, t)

\* lines 374-377: the hold check, made on every call before the events
\* are read
hold_check(m, t) ==
    IF m.is_held /\ ~m.reset_triggered /\ (t - m.last_press_time) > hold_threshold
    THEN [m EXCEPT !.on_reset_calls[m.cur] = @ + 1, !.reset_triggered = TRUE]
    ELSE m

\* InputMonitor._process_input() at clock t: select() returns, the hold
\* check is made, and the events waiting are read and handled
process_input(m, t) ==
    LET checked == hold_check(m, t)
    IN  [read_events(checked, m.queue, 1, t) EXCEPT !.queue = <<>>]

InitInput ==
    /\ timer = TimerInit
    /\ split_names = <<>>
    /\ segment_history = <<>>
    /\ history_file = <<>>
    /\ now = 0
    /\ is_finished = FALSE
    /\ op = "init"
    /\ pc = [th \in Threads |-> "idle"]
    /\ ExtInit

\* what the steps of the input monitor leave alone
input_unchanged ==
    UNCHANGED <<timer, split_names, segment_history, history_file,
                is_finished, pc, data, disk, io, served, srv>>

\* time passes
clock_tick ==
    /\ now < MaxClock
    /\ now' = now + 1
    /\ op' = "tick"
    /\ UNCHANGED mon
    /\ input_unchanged

\* the user presses the button: the device queues a key-down event
key_down ==
    /\ mon.button = "up"
    /\ mon.presses < MaxPresses
    /\ Len(mon.queue) < MaxQueue
    /\ LET p == mon.presses + 1
       IN  mon' = [mon EXCEPT !.button = "down", !.presses = p,
                              !.down_at[p] = now,
                              !.queue = Append(@, [value |-> 1, press |-> p])]
    /\ op' = "key_down"
    /\ UNCHANGED now
    /\ input_unchanged

\* the button is still down: the device queues a key-repeat event
key_repeat ==
    /\ mon.button = "down"
    /\ Len(mon.queue) < MaxQueue - 1
    /\ mon' = [mon EXCEPT !.queue = Append(@, [value |-> 2, press |-> mon.presses])]
    /\ op' = "key_repeat"
    /\ UNCHANGED now
    /\ input_unchanged

\* the user lets the button go: the device queues a key-up event
key_up ==
    /\ mon.button = "down"
    /\ Len(mon.queue) < MaxQueue
    /\ mon' = [mon EXCEPT !.button = "up", !.up_at[mon.presses] = now,
                          !.queue = Append(@, [value |-> 0, press |-> mon.presses])]
    /\ op' = "key_up"
    /\ UNCHANGED now
    /\ input_unchanged

\* the monitor thread gets through one call of _process_input()
do_process_input ==
    /\ mon' = process_input(mon, now)
    /\ op' = "process_input"
    /\ UNCHANGED now
    /\ input_unchanged

NextInput == clock_tick \/ key_down \/ key_repeat \/ key_up \/ do_process_input

SpecInput == InitInput /\ [][NextInput]_vars

----------------------------------------------------------------------------
\* Properties.

\* the three fields of the comparison snapshot
snapshot(tm) ==
    <<tm.comparison_pb_segments, tm.comparison_best_segments, tm.comparison_pb_total>>

\* currentIndex, running, splitTimes
run_state(tm) == <<tm.current_split_index, tm.timer_running, tm.split_times>>

\* the record stored under the key of the current clock second
record_now(h) == h[CHOOSE i \in 1..Len(h) : h[i].key = run_key(now)].run

Abs(x) == IF x < 0 THEN -x ELSE x

\* C1: the comparison snapshot changes in no step other than a start():
\* not when a run is recorded, not when the history is loaded again, not on
\* split, reset or the passing of time.
C1_SnapshotFrozen ==
    [][snapshot(timer') # snapshot(timer) => op' = "start"]_vars

\* a finished run has just been recorded, and the personal best of the
\* history now differs from the total frozen at start()
C1_Witness ==
    /\ op = "split" /\ is_finished
    /\ timer.comparison_pb_total # None
    /\ find_pb(segment_history, 1, None, None).min_total # timer.comparison_pb_total

\* C2: while a run is in progress, a step that leaves the timer and the
\* split names alone (so the history is all it can change) leaves every
\* comparison value of the display as it was, under every renderer setting.
C2_DisplayFrozenInRun ==
    [][(timer.timer_running /\ timer' = timer /\ split_names' = split_names)
        => \A st \in Settings :
              render(st, timer', split_names', segment_history')
                = render(st, timer, split_names, segment_history)]_vars

\* the RunStates whole transitions leave behind: Idle, Running on segment
\* i with i splits recorded, or stopped on the last segment with one more
settled(tm) ==
    LET i == tm.current_split_index
        n == Len(tm.split_times)
    IN  \/ i = -1 /\ ~tm.timer_running /\ n = 0
        \/ i >= 0 /\ tm.timer_running /\ n = i
        \/ i >= 0 /\ ~tm.timer_running /\ n = i + 1

\* C3: whenever no transition is under way, the RunState is one that whole
\* start/split/reset transitions, run one after the other, can produce.
C3_TransitionsSerializable == Quiet => settled(timer)

C5_OneRecordPerRun ==
    [][(op' = "split" /\ is_finished'
          /\ Len(timer'.split_times) = Len(split_names))
        => /\ Len(segment_history') = Len(segment_history) + 1
           /\ Cardinality(DOMAIN record_now(segment_history')) = Len(split_names)]_vars

\* C6: a reset leaves current_split_index = -1, timer_running = false and
\* split_times = [], writes nothing to the history in memory or on disk, and
\* a reset that follows a reset changes nothing.
C6_ResetClears ==
    [][op' = "reset"
        => /\ run_state(timer') = <<-1, FALSE, <<>>>>
           /\ segment_history' = segment_history
           /\ history_file' = history_file
           /\ (op = "reset" => timer' = timer)]_vars

\* a reset has been taken after a run that finished and was recorded
C6_Witness ==
    /\ op = "reset"
    /\ is_finished
    /\ segment_history # <<>>
    /\ run_state(timer) = <<-1, FALSE, <<>>>>

\* C7: a step of a start/split/reset trigger changes the history, in
\* memory or on disk, only when it is the split that ends a running run on
\* its last segment.
C7_HistoryOnlyOnFinish ==
    [][(op' \in {"start", "split", "ignored", "reset"}
          /\ (segment_history' # segment_history \/ history_file' # history_file))
        => /\ op' = "split"
           /\ timer.timer_running
           /\ timer.current_split_index >= Len(split_names) - 1
           /\ ~timer'.timer_running]_vars

\* a finished run is in the history in memory and on disk
C7_Witness ==
    /\ op = "split" /\ is_finished
    /\ HasKey(segment_history, run_key(now))
    /\ HasKey(history_file, run_key(now))

\* C8: a start() while the timer is running changes nothing.
C8_StartWhileRunningNoOp ==
    [][(op' = "cmd_start" /\ timer.timer_running) => timer' = timer]_vars

\* C9: split() while the timer is not running returns False and changes
\* neither the timer nor the history.
C9_SplitNotRunningNoOp ==
    [][(op' = "cmd_split" /\ ~timer.timer_running)
        => /\ timer' = timer
           /\ ~is_finished'
           /\ segment_history' = segment_history
           /\ history_file' = history_file]_vars

\* split() has been called on a timer that was not running: once in Idle,
\* and once after a finished run whose times are still there
C9_Witness ==
    /\ op = "cmd_split" /\ ~is_finished
    /\ ~timer.timer_running
    /\ timer.split_times # <<>>

\* C10: the values of the record written for a completed run add up to the
\* last cumulative split time, to within half a hundredth per segment.
C10_RecordSumsToTotal ==
    [][(op' = "split" /\ is_finished'
          /\ Len(timer'.split_times) = Len(split_names))
        => 2 * Abs(SumValues(record_now(segment_history'))
                     - timer'.split_times[Len(timer'.split_times)])
             <= Len(split_names) * Cent]_vars

\* C11: the record written for a completed run holds, for every index i of
\* split_names, round(split_times[i] - split_times[i-1], 2) under the key
\* split_names[i] (split_times[-1] taken as 0).
C11_RecordPerSegment ==
    [][(op' = "split" /\ is_finished'
          /\ Len(timer'.split_times) = Len(split_names))
        => LET rec == record_now(segment_history')
               times == timer'.split_times
           IN  \A i \in 1..Len(split_names) :
                  /\ split_names[i] \in DOMAIN rec
                  /\ rec[split_names[i]]
                       = round2(times[i] - (IF i > 1 THEN times[i - 1] ELSE 0))]_vars

C16_PersonalBest ==
    LET h == segment_history
        pb == find_pb(h, 1, None, None)
        total(i) == SumValues(h[i].run)
    IN  IF h = <<>>
        THEN pb.min_total = None /\ pb.pb_run = None
        ELSE \E i \in 1..Len(h) :
                /\ \A j \in 1..Len(h) : total(i) <= total(j)
                /\ \A j \in 1..(i - 1) : total(j) > total(i)
                /\ pb.min_total = Some(total(i))
                /\ pb.pb_run = Some(h[i].run)

\* start() has taken its snapshot from a history in which two different
\* runs share the smallest total, and a slower run comes first
C16_Witness ==
    /\ op = "start"
    /\ Len(segment_history) >= 3
    /\ \E i, j \in 2..Len(segment_history) :
          /\ i < j
          /\ segment_history[i].run # segment_history[j].run
          /\ SumValues(segment_history[i].run) = SumValues(segment_history[j].run)
          /\ SumValues(segment_history[1].run) > SumValues(segment_history[i].run)
          /\ timer.comparison_pb_total = Some(SumValues(segment_history[i].run))

\* C17: _get_best_segment(index, ...) is None for an index below 0 or at or
\* beyond len(split_names) and when no run has the segment's name; otherwise
\* it is the smallest duration recorded under that name.
C17_BestSegment ==
    \A index \in -1..Len(split_names) :
       LET r == get_best_segment(index, split_names, segment_history)
       IN  IF index < 0 \/ index >= Len(split_names) THEN r = None
           ELSE LET name == split_names[index + 1]
                    with == {i \in 1..Len(segment_history) :
                                name \in DOMAIN segment_history[i].run}
                IN  IF with = {} THEN r = None
                    ELSE /\ r # None
                         /\ \E i \in with : segment_history[i].run[name] = r[1]
                         /\ \A i \in with : r[1] <= segment_history[i].run[name]

\* start() has stored the best time of a segment recorded with two
\* different durations, while another segment of the list was never recorded
C17_Witness ==
    /\ op = "start"
    /\ split_names = <<"A", "B">>
    /\ \E i, j \in 1..Len(segment_history) :
          /\ "A" \in DOMAIN segment_history[i].run
          /\ "A" \in DOMAIN segment_history[j].run
          /\ segment_history[i].run["A"] < segment_history[j].run["A"]
          /\ i > j
    /\ \A i \in 1..Len(segment_history) : "B" \notin DOMAIN segment_history[i].run
    /\ "A" \in DOMAIN timer.comparison_best_segments
    /\ "B" \notin DOMAIN timer.comparison_best_segments

\* C18: start() builds the snapshot from the history of that moment only:
\* comparison_pb_total is the personal-best total, comparison_best_segments
\* has exactly the segment names found in some run (with the smallest
\* duration), comparison_pb_segments exactly those found in the
\* personal-best run (with its duration); nothing of the old snapshot stays.
C18_FreshSnapshot ==
    [][op' = "start"
        => LET h == segment_history
               names == {split_names[i] : i \in 1..Len(split_names)}
               in_some == {n \in names : \E i \in 1..Len(h) : n \in DOMAIN h[i].run}
               totals == {SumValues(h[i].run) : i \in 1..Len(h)}
               best == timer'.comparison_best_segments
               pbs == timer'.comparison_pb_segments
           IN  /\ timer'.comparison_pb_total
                    = (IF h = <<>> THEN None ELSE Some(MinOf(totals)))
               /\ DOMAIN best = in_some
               /\ \A n \in in_some :
                     best[n] = MinOf({h[i].run[n] : i \in {j \in 1..Len(h) : n \in DOMAIN h[j].run}})
               /\ IF h = <<>> THEN pbs = EmptyDict
                  ELSE LET p == CHOOSE i \in 1..Len(h) :
                                   /\ SumValues(h[i].run) = MinOf(totals)
                                   /\ \A j \in 1..(i - 1) : SumValues(h[j].run) > MinOf(totals)
                       IN  /\ DOMAIN pbs = names \cap DOMAIN h[p].run
                           /\ \A n \in DOMAIN pbs : pbs[n] = h[p].run[n]]_vars

\* a second run of the session has started: its snapshot has a best time
\* for a segment the personal-best run does not have
C18_Witness ==
    /\ op = "start" /\ is_finished
    /\ segment_history # <<>>
    /\ DOMAIN timer.comparison_pb_segments # DOMAIN timer.comparison_best_segments
    /\ timer.comparison_pb_total # None

\* the active path is in the tree and segment_history is the mapping there
path_present(d) ==
    /\ d.full_history.t = "dict"
    /\ d.game_name \in DOMAIN d.full_history.d
    /\ d.category_name \in DOMAIN d.full_history.d[d.game_name]
    /\ d.attached
    /\ d.segment_history = d.full_history.d[d.game_name][d.category_name]

\* C12: loading the file that holds the tree of the previous load, with the
\* same game and category, gives that tree again.
C12_MigrationIdempotent ==
    [][(op = "load_history" /\ op' = "load_history"
          /\ ~io.raised
          /\ disk = [kind |-> "json", value |-> data.full_history]
          /\ data'.game_name = data.game_name
          /\ data'.category_name = data.category_name)
        => data'.full_history = data.full_history]_vars

\* C13: after every load of a history file that is absent or can be opened,
\* whatever it holds, the tree has the active game, inside it the active
\* category, and segment_history is the mapping stored there.
C13_PathPresentAfterLoad ==
    [][(op' = "load_history" /\ disk.kind # "unreadable")
        => path_present(data')]_vars

\* C14: a load that finds a top-level key of timestamp shape makes the tree
\* {game: {category: <loaded map>}} with the loaded map unchanged, hands
\* that tree to _save_history before it returns (the file holds it when the
\* write succeeds); a load that finds no such key saves nothing, leaves the
\* file alone and only adds the missing path to what it read.
C14_MigrateAndPersist ==
    [][op' = "load_history"
        => LET read == IF disk.kind = "json" THEN disk.value ELSE JsonDict(EmptyDict)
               g == data'.game_name
               c == data'.category_name
           IN  IF disk.kind # "unreadable" /\ read.t = "dict"
                  /\ \E k \in DOMAIN read.d : re_match_date(k)
               THEN /\ data'.full_history = JsonDict(nested(g, c, read.d))
                    /\ data'.segment_history = read.d
                    /\ io'.saved = Some(data'.full_history)
                    /\ (io'.write = "ok"
                          => disk' = [kind |-> "json", value |-> data'.full_history])
               ELSE /\ io'.saved = None
                    /\ disk' = disk
                    /\ (~io'.raised
                          => \A k \in DOMAIN read.d :
                                /\ k \in DOMAIN data'.full_history.d
                                /\ (k # g => data'.full_history.d[k] = read.d[k]))]_vars

\* a legacy file has been migrated and the nested tree is on disk
C14_Witness ==
    /\ op = "load_history"
    /\ io.saved # None /\ io.write = "ok"
    /\ disk = [kind |-> "json", value |-> data.full_history]
    /\ data.segment_history = [k \in {RunKey0} |-> OldRun]
    /\ data.full_history = JsonDict(nested(<<"G">>, <<"C">>, data.segment_history))

\* the connection handled by the last step
last_served(log) == log[Len(log)]

\* the bytes are a well-formed JSON text
well_formed(req) == req.utf8 /\ json_loads(req.text).ok

\* C19: for every non-empty request, bytes that are not well-formed JSON get
\* the invalid_json response, and a well-formed JSON value that is not an
\* object with a command field gets the invalid_command response; in both
\* cases the handler is not called and the response is what a working
\* send() delivers.
C19_ErrorsClassified ==
    [][op' = "handle_client"
        => LET e == last_served(served').conn
               expected == IF ~well_formed(e.data) THEN ErrInvalidJson
                           ELSE ErrInvalidCommand
           IN  (e.data # EmptyData
                  /\ (~well_formed(e.data)
                        \/ ~is_command(json_loads(e.data.text).value)))
               => /\ e.calls = <<>>
                  /\ e.response = Some(expected)
                  /\ ("send" \in {e.events[i] : i \in 1..Len(e.events)}
                        => e.sent = <<json_dumps(expected).text>>)]_vars

C27_RecordOnlyWhenComplete ==
    [][op' \in {"start", "split", "ignored", "reset"}
        => /\ (segment_history' # segment_history
                 => /\ op' = "split" /\ is_finished'
                    /\ Len(timer'.split_times) = Len(split_names)
                    /\ DOMAIN record_now(segment_history')
                         = {split_names[i] : i \in 1..Len(split_names)})
           /\ ((op' = "split" /\ is_finished'
                  /\ Len(timer'.split_times) # Len(split_names))
                 => /\ segment_history' = segment_history
                    /\ history_file' = history_file)]_vars

\* a run has finished with more split times than the split list, reloaded
\* during the run, has names; nothing was recorded
C27_Witness ==
    /\ op = "split" /\ is_finished
    /\ Len(split_names) >= 1
    /\ Len(timer.split_times) > Len(split_names)
    /\ segment_history = <<>>

\* C28: recording a completed run adds one record to the history and leaves
\* every record that was there in place, also when another run was recorded
\* in the same clock second.
C28_UniqueRunKey ==
    [][(op' = "split" /\ is_finished'
          /\ Len(timer'.split_times) = Len(split_names))
        => /\ Len(segment_history') = Len(segment_history) + 1
           /\ \A i \in 1..Len(segment_history) :
                 segment_history'[i] = segment_history[i]]_vars

\* C29: in every state the timer is Idle (current_split_index = -1, not
\* running) or running with 0 <= current_split_index <= N-1, N being the
\* number of segment names.
C29_IdleOrRunning ==
    \/ timer.current_split_index = -1 /\ ~timer.timer_running
    \/ /\ timer.timer_running
       /\ 0 <= timer.current_split_index
       /\ timer.current_split_index <= Len(split_names) - 1

\* C30: get_current_elapsed() is now - start_time while running, the last
\* split time when stopped with split times, and 0 otherwise; it is 0 after
\* a reset, and it does not move with the clock once the run has finished.
C30_Elapsed ==
    [][/\ get_current_elapsed(timer', now')
            = (IF timer'.timer_running THEN now' - timer'.start_time
               ELSE IF Len(timer'.split_times) > 0
               THEN timer'.split_times[Len(timer'.split_times)]
               ELSE 0)
       /\ (op' = "reset" => get_current_elapsed(timer', now') = 0)
       /\ ((op' = "tick" /\ ~timer.timer_running)
             => get_current_elapsed(timer', now') = get_current_elapsed(timer, now))]_vars

\* the clock has moved on after a run finished: the elapsed time is the
\* run's total, which is less than the time since start()
C30_Witness ==
    /\ op = "tick"
    /\ ~timer.timer_running /\ timer.split_times # <<>>
    /\ get_current_elapsed(timer, now) = timer.split_times[Len(timer.split_times)]
    /\ get_current_elapsed(timer, now) > 0
    /\ now - timer.start_time > get_current_elapsed(timer, now)

\* the threads that are inside _handle_client
handling(sv) == {t \in Tids : sv.loops[t].pc \in {"recv", "handler"}}

\* the events of a connection
events_of(conn) == {conn.events[i] : i \in 1..Len(conn.events)}

\* C21: when the handler raises, or encoding or sending its result fails,
\* the connection is closed, the thread that served it is back at the while
\* test of the accept loop, nothing else of the server changes, and every
\* connection is handled as _handle_client handles it on a fresh server.
C21_HandlerErrorContained ==
    [][(op' \in {"t_recv", "t_handler"} /\ Len(served') = Len(served) + 1)
        => LET e == last_served(served')
           IN  /\ e.conn = handle_client(e.conn.data, e.outcome, e.send_ok)
               /\ ("error" \in events_of(e.conn)
                     => /\ e.conn.events[Len(e.conn.events)] = "close"
                        /\ \A t \in Tids :
                              IF t \in handling(srv) /\ srv'.loops[t].pc # srv.loops[t].pc
                              THEN srv'.loops[t].pc = "loop"
                              ELSE srv'.loops[t] = srv.loops[t]
                        /\ srv'.running = srv.running
                        /\ srv'.listening = srv.listening
                        /\ srv'.server_socket = srv.server_socket)]_vars

\* the one loop thread of the server has served a command after a
\* connection on which the handler raised
C21_Witness ==
    /\ srv.starts = 1
    /\ Len(served) = 2
    /\ served[1].outcome.kind = "raise"
    /\ "error" \in events_of(served[1].conn)
    /\ served[2].conn.sent = <<"{\"response\": \"ok\"}">>

\* C22: start() on a server whose running flag is set returns True and
\* changes nothing: no socket, no thread, no binding, not the handler.
C22_StartIdempotent ==
    [][(op' = "srv_start" /\ srv.running)
        => /\ srv'.ret
           /\ srv'.running
           /\ srv'.server_socket = srv.server_socket
           /\ srv'.thread = srv.thread
           /\ srv'.command_handler = srv.command_handler
           /\ srv'.listening = srv.listening
           /\ srv'.bound = srv.bound
           /\ srv'.starts = srv.starts
           /\ srv'.loops = srv.loops]_vars

\* start() has been called on a running server whose loop is in accept()
C22_Witness ==
    /\ op = "srv_start"
    /\ srv.bind = "none" /\ srv.ret /\ srv.running
    /\ srv.starts < MaxStarts
    /\ \E t \in Tids : srv.loops[t].pc = "accept"

\* C23: a start() whose bind fails returns False, leaves the running flag
\* false and launches no thread; every start() on a server that is not
\* running makes a bind attempt, and one that succeeds sets the flag and
\* launches the loop.
C23_BindFailure ==
    [][op' = "srv_start"
        => /\ (srv'.bind = "failed"
                 => /\ ~srv'.ret
                    /\ ~srv'.running
                    /\ srv'.thread = srv.thread
                    /\ srv'.loops = srv.loops)
           /\ (~srv.running
                 => /\ srv'.bind \in {"ok", "failed"}
                    /\ srv'.starts = srv.starts + 1
                    /\ (srv'.bind = "ok"
                          => /\ srv'.ret /\ srv'.running
                             /\ srv'.loops[srv'.starts].pc = "loop"))]_vars

\* a start() has succeeded after a start() whose bind failed
C23_Witness ==
    /\ op = "srv_start"
    /\ srv.bind = "ok" /\ srv.running /\ srv.ret
    /\ srv.starts = 2
    /\ srv.loops[1].pc = "unborn"
    /\ srv.loops[2].pc = "loop"

\* C24: after stop() the flag is false, the socket closed and forgotten and
\* the path removed, and unless the server is started again every loop
\* thread comes to its end.
C24_StopConverges ==
    /\ [](op = "srv_stop"
            => /\ ~srv.running
               /\ srv.server_socket = None
               /\ srv.bound = None
               /\ \A t \in Tids : srv.loops[t].pc = "accept"
                                    => srv.loops[t].sock \notin srv.listening)
    /\ (op = "srv_stop")
         ~> (srv.running \/ \A t \in Tids : srv.loops[t].pc \in {"unborn", "done"})

\* C25: a thread waiting for the bytes of a client it has accepted does not
\* wait for ever.
C25_SilentClientDropped ==
    \A t \in Tids : (srv.loops[t].pc = "recv") ~> (srv.loops[t].pc # "recv")

\* C26: no two threads of the server are in the handler at the same time.
C26_HandlerNeverOverlaps ==
    Cardinality({t \in Tids : srv.loops[t].pc = "handler"}) <= 1

\* the names every run of the history has a time for are exactly these
exact_names(h, names) ==
    \A i \in 1..Len(h) : DOMAIN h[i].run = {names[j] : j \in 1..Len(names)}

\* C31: while a run is under way (from start() to its final split or its
\* reset) the list of segment names that split() and save_run() are given
\* does not change.
C31_SplitNamesFixedInRun ==
    [][timer.timer_running => split_names' = split_names]_vars

\* C34: a split trigger starts a run when the timer is Idle and records a
\* split when it is running; after a finished run and until a reset it
\* changes neither the run state, nor the snapshot, nor the history, and
\* the timer goes from stopped to running only out of Idle.
C34_SplitTrigger ==
    [][/\ (op' \in {"start", "split", "ignored"}
            => IF ~timer.timer_running /\ timer.current_split_index = -1
               THEN /\ op' = "start"
                    /\ timer'.timer_running
                    /\ timer'.current_split_index = 0
               ELSE IF timer.timer_running
               THEN /\ op' = "split"
                    /\ Len(timer'.split_times) = Len(timer.split_times) + 1
               ELSE /\ op' = "ignored"
                    /\ timer' = timer
                    /\ segment_history' = segment_history
                    /\ history_file' = history_file)
       /\ (~timer.timer_running /\ timer'.timer_running
            => timer.current_split_index = -1 /\ timer.split_times = <<>>)]_vars

\* a split trigger has arrived after a finished run of two segments and
\* was ignored: the times of the run are still there
C34_Witness ==
    /\ op = "ignored"
    /\ ~timer.timer_running
    /\ timer.current_split_index = 1
    /\ Len(timer.split_times) = 2

\* C35: len(split_times) is current_split_index while the timer runs, 0 in
\* Idle, and current_split_index + 1 after a finished run.
C35_SplitTimesLength ==
    IF timer.timer_running
    THEN Len(timer.split_times) = timer.current_split_index
    ELSE IF timer.current_split_index = -1
    THEN Len(timer.split_times) = 0
    ELSE Len(timer.split_times) = timer.current_split_index + 1

\* one split of a run of two segments is done and the timer still runs
C35_Witness ==
    /\ op = "split"
    /\ timer.timer_running
    /\ timer.current_split_index = 1
    /\ Len(timer.split_times) = 1

\* C36: in the snapshot start() has just built, every name of
\* comparison_pb_segments is in comparison_best_segments with a time that
\* is not larger; and when every run of the history has exactly the names
\* of the split list, the best times add up to no more than the PB total.
C36_BestBelowPb ==
    op = "start"
      => /\ \A name \in DOMAIN timer.comparison_pb_segments :
               /\ name \in DOMAIN timer.comparison_best_segments
               /\ timer.comparison_best_segments[name]
                     <= timer.comparison_pb_segments[name]
         /\ (exact_names(segment_history, split_names)
               /\ timer.comparison_pb_total # None
               => SumValues(timer.comparison_best_segments)
                    <= timer.comparison_pb_total[1])

\* a run has started over two earlier runs of A and B; the best time of a
\* segment is smaller than its time in the PB run
C36_Witness ==
    /\ op = "start"
    /\ Len(segment_history) = 2
    /\ split_names = <<"A", "B">>
    /\ exact_names(segment_history, split_names)
    /\ DOMAIN timer.comparison_pb_segments = {"A", "B"}
    /\ \E name \in {"A", "B"} :
          timer.comparison_best_segments[name] < timer.comparison_pb_segments[name]
    /\ SumValues(timer.comparison_best_segments) < timer.comparison_pb_total[1]

\* C37: while the running flag is true a thread of the server is in its
\* accept loop.
C37_RunningMeansAccepting ==
    srv.running => \E t \in Tids : srv.loops[t].pc \notin {"unborn", "done"}

\* C38: every connection the server has finished with was closed once, as
\* the last thing done on it, and every connection it accepts is finished
\* with.
C38_ConnectionClosedOnce ==
    /\ [](\A i \in 1..Len(served) :
            LET ev == served[i].conn.events
            IN  /\ ev[Len(ev)] = "close"
                /\ Cardinality({j \in 1..Len(ev) : ev[j] = "close"}) = 1)
    /\ \A t \in Tids : (srv.loops[t].pc = "recv") ~> (t \notin handling(srv))

\* C39: a record of a finished run goes into the mapping that the tree
\* holds at the active game and category, and the tree handed to
\* _save_history has it.
C39_RecordInPersistedTree ==
    [][op' = "save_run"
        => /\ path_present(data')
           /\ io'.saved = Some(data'.full_history)
           /\ RunKey1 \in DOMAIN data'.full_history.d[data'.game_name][data'.category_name]]_vars

\* the presses held for longer than the threshold whose key-up has been read
long_holds(m) ==
    {p \in m.released : m.up_at[p] - m.down_at[p] > hold_threshold}

\* C32: a press held for longer than the hold threshold has, once its
\* release is handled, made one call of on_reset and no call of on_split.
C32_HoldMeansReset ==
    \A p \in long_holds(mon) :
        mon.on_reset_calls[p] = 1 /\ mon.on_split_calls[p] = 0

====
